---- MODULE Spec2Model ----
(***************************************************************************)
(* A model of mdcode's text-splicing engine:                               *)
(*   - internal/region: Read, Replace and Outline over                     *)
(*     #region / #endregion marker lines (SpecRegion);                     *)
(*   - internal/mdcode: Walk over the fenced code blocks of a Markdown     *)
(*     document, with applyChanges reassembling the document (Spec);       *)
(*   - internal/cmd: exec --batch, which writes the selected blocks to     *)
(*     temporary files, runs one command and reads the files back          *)
(*     (SpecExec).                                                         *)
(* Documents are sequences of characters.  Offsets are Go's: 0-based,      *)
(* half-open, so s[a:b] is Slice(s, a, b).  The literal words "#region",   *)
(* "#endregion" and the code fence are single symbols of the alphabet.      *)
(***************************************************************************)
EXTENDS Integers, Sequences, FiniteSets, TLC

VARIABLES
    rsource,    \* region: the source document handed to the operation
    rname,      \* region: the name argument
    rvalue,     \* region: the value argument of Replace
    rop,        \* region: the operation called ("none" before the call)
    rpc,        \* region: "start", "outline" (inside Outline's loop), "replaced", "done"
    rres,       \* region: the byte slice returned (Nil for Go's nil); Outline's res while it loops
    rfound,     \* region: the bool returned; Outline's found while it loops
    rerr,       \* region: the error returned
    ridx,       \* region: Outline's idx
    rback,      \* region: the result of Read on Replace's result
    doc,        \* Walk: the Markdown document (Walk's source)
    nodes,      \* Walk: the nodes of the parsed document, in the order ast.Walk leaves them
    pos,        \* Walk: the index in nodes of the next node the callback is called for
    changes,    \* Walk: the changes collected so far
    calls,      \* Walk: one record per call of the walker, in order
    wpc,        \* Walk: "start", "walking", "return", "done", "panic"
    modified,   \* Walk: the bool returned
    rewritten,  \* Walk: the byte slice returned (Nil for Go's nil)
    werr,       \* Walk: the error returned; the callback's error on the way there
    esrc,       \* exec: the content of the markdown file (execBatch's src)
    efilter,    \* exec: the languages opts.filter selects
    eupdate,    \* exec: the --update flag
    eblocks,    \* exec: the fenced code blocks walk goes through, in order
    epos,       \* exec: the index in eblocks of the block the running walk is at
    eindex,     \* exec: execBatch's index
    entries,    \* exec: execBatch's entries
    efiles,     \* exec: the temporary files, path to content
    epc,        \* exec: "start", "pass1", "run", "pass2", "return2", "done", "panic"
    eexit,      \* exec: the exit code of the batch command (-1 before it has run)
    eupdates,   \* exec: one record per assignment block.Code = newCode of the second walk
    echanges,   \* exec: the changes the second walk has collected
    eerr,       \* exec: the error execBatch returns; the walker's error on the way there
    ewritten    \* exec: what was written back to the markdown file (Nil: nothing)

rvars == <<rsource, rname, rvalue, rop, rpc, rres, rfound, rerr, ridx, rback>>
wvars == <<doc, nodes, pos, changes, calls, wpc, modified, rewritten, werr>>
evars == <<esrc, efilter, eupdate, eblocks, epos, eindex, entries, efiles, epc, eexit,
           eupdates, echanges, eerr, ewritten>>
vars == <<rvars, wvars, evars>>

(***************************************************************************)
(* Bounds                                                                  *)
(***************************************************************************)
MaxRegionLines == 4
MaxPieces == 3

(***************************************************************************)
(* Go slices                                                               *)
(***************************************************************************)
Nil == <<"<nil>">>
NilIdx == <<>>
NoErr == "nil"

Slice(s, a, b) == SubSeq(s, a + 1, b)

Min(S) == CHOOSE x \in S : \A y \in S : x <= y

make(n) == [i \in 1..n |-> "\\0"]

\* copy(dst[at:], src): overwrites dst from offset at, truncated to dst's length
copy(dst, at, src) ==
    [i \in 1..Len(dst) |-> IF i > at /\ i <= at + Len(src) THEN src[i - at] ELSE dst[i]]

RECURSIVE Flatten(_)
Flatten(ps) == IF ps = <<>> THEN <<>> ELSE Head(ps) \o Flatten(Tail(ps))

(***************************************************************************)
(* internal/region: the marker regular expressions                         *)
(***************************************************************************)
blank == {" ", "\t"}

reSpec == {"!", "\"", "#", "$", "%", "&", "'", "(", ")", "*", "+", ",", "-", ".",
           "/", ":", ";", "<", "=", ">", "?", "@", "[", "\\", "]", "^", "_", "{",
           "|", "}", "~"}

\* \w and \s of the alphabet in use
word == {"a", "x", "y", "z", "_", "g", "c", "t", "n"}
space == {" ", "\t", "\n", "\r"}

regionFormat == "#region"
namedendFormat == "#endregion"

\* fmt.Sprintf(format, regexp.QuoteMeta(name)): the name is matched literally
marker(format, name) == [lit |-> format, mode |-> "name", name |-> name]

reStart == [lit |-> "#region", mode |-> "word", name |-> <<>>]
reEnd == [lit |-> "#endregion", mode |-> "none", name |-> <<>>]

\* the first index >= i of line that holds no character of cls
RECURSIVE Skip(_, _, _)
Skip(line, i, cls) ==
    IF i > Len(line) \/ line[i] \notin cls THEN i ELSE Skip(line, i + 1, cls)

\* \r?\n at index i, up to the end of line
MatchNewline(line, i) ==
    \/ i = Len(line) /\ line[i] = "\n"
    \/ i = Len(line) - 1 /\ line[i] = "\r" /\ line[i + 1] = "\n"

\* [[:blank:]]* reSpec* [[:blank:]]* \r?\n from index k on; k = 0: no match before
MatchTail(line, k) ==
    k # 0 /\ MatchNewline(line, Skip(line, Skip(line, Skip(line, k, blank), reSpec), blank))

\* the name part of re, with i the index after the literal and j the index after
\* the blanks that follow it: the index after the name part, 0 when it does not match:
\*   [[:blank:]]+NAME when re comes from marker, [[:blank:]]+\w+ in reStart, [[:blank:]]* in reEnd
MatchName(re, line, i, j) ==
    CASE re.mode = "name" ->
            IF j > i /\ j + Len(re.name) - 1 <= Len(line)
                     /\ SubSeq(line, j, j + Len(re.name) - 1) = re.name
            THEN j + Len(re.name) ELSE 0
      [] re.mode = "word" -> IF j > i /\ Skip(line, j, word) > j THEN Skip(line, j, word) ELSE 0
      [] OTHER -> j

\* the literal of re at index i, then the name part and the tail
MatchLit(re, line, i) ==
    /\ i <= Len(line)
    /\ line[i] = re.lit
    /\ MatchTail(line, MatchName(re, line, i + 1, Skip(line, i + 1, blank)))

\* reSpec+ from index i1 to i2, then [[:blank:]]* and the literal
MatchSpec(re, line, i1, i2) == i2 > i1 /\ MatchLit(re, line, Skip(line, i2, blank))

MatchBlank(re, line, i1) == MatchSpec(re, line, i1, Skip(line, i1, reSpec))

\* whether line (one whole line, its "\n" included) matches
\*   ^[[:blank:]]* reSpec+ [[:blank:]]* LIT <name part> [[:blank:]]* reSpec* [[:blank:]]* \r?\n
MatchLine(re, line) == MatchBlank(re, line, Skip(line, 1, blank))

\* the offset just after the first "\n" at or after offset p, 0 when there is none
RECURSIVE LineEnd(_, _)
LineEnd(text, p) ==
    IF p >= Len(text) THEN 0
    ELSE IF text[p + 1] = "\n" THEN p + 1 ELSE LineEnd(text, p + 1)

\* the offsets of text, from p on, at which (?m)^ matches a whole line
RECURSIVE LineStartsFrom(_, _), LineStartsNext(_, _, _)
LineStartsFrom(text, p) == LineStartsNext(text, p, LineEnd(text, p))

LineStartsNext(text, p, e) == IF e = 0 THEN {} ELSE {p} \cup LineStartsFrom(text, e)

LineStarts(text) == LineStartsFrom(text, 0)

\* the leftmost line of text, from the line start p on, that re matches
RECURSIVE FindFrom(_, _, _), FindLine(_, _, _, _)
FindFrom(re, text, p) == FindLine(re, text, p, LineEnd(text, p))

FindLine(re, text, p, e) ==
    IF e = 0 THEN NilIdx
    ELSE IF MatchLine(re, Slice(text, p, e)) THEN <<p, e>>
    ELSE FindFrom(re, text, e)

\* regexp.FindIndex: the leftmost match, as <<start, end>>, or NilIdx
FindIndex(re, text) == FindFrom(re, text, 0)

(***************************************************************************)
(* internal/region: findRegion, Read, Replace                              *)
(***************************************************************************)
NotFound == [found |-> FALSE, begin |-> 0, end |-> 0]

\* idx, or alt when idx is nil
OrElse(idx, alt) == IF idx = NilIdx THEN alt ELSE idx

\* findRegion's return once idxBegin is found: begin is idxBegin[1]
regionAt(begin, idxEnd) ==
    IF idxEnd = NilIdx THEN NotFound
    ELSE [found |-> TRUE, begin |-> begin, end |-> begin + idxEnd[1]]

\* mutant: the end marker is whichever of the named and the anonymous one comes first
FirstOf(named, anon) ==
    IF named = NilIdx THEN anon
    ELSE IF anon = NilIdx THEN named
    ELSE IF anon[1] < named[1] THEN anon ELSE named

findEnd_FirstEnd(name, rest) ==
    FirstOf(FindIndex(marker(namedendFormat, name), rest), FindIndex(reEnd, rest))

\* findRegion's idxEnd: the named end marker in rest, else the anonymous one
findEnd(name, rest) ==
    OrElse(FindIndex(marker(namedendFormat, name), rest), FindIndex(reEnd, rest))

findRegionFrom(source, name, idxBegin) ==
    IF idxBegin = NilIdx THEN NotFound
    ELSE regionAt(idxBegin[2], findEnd(name, Slice(source, idxBegin[2], Len(source))))

findRegion(source, name) ==
    findRegionFrom(source, name, FindIndex(marker(regionFormat, name), source))

readRegion(source, r) ==
    IF ~r.found THEN [res |-> Nil, found |-> FALSE, err |-> NoErr]
    ELSE [res |-> Slice(source, r.begin, r.end), found |-> TRUE, err |-> NoErr]

Read(source, name) == readRegion(source, findRegion(source, name))

\* mutant: the tail is copied to begin, not to begin+len(value)
replaceBytes_TailAtBegin(source, value, begin, end) ==
    copy(copy(copy(make(Len(source) - (end - begin) + Len(value)),
                   0, Slice(source, 0, begin)),
              begin, value),
         begin, Slice(source, end, Len(source)))

\* Replace's res for the region [begin, end)
replaceBytes(source, value, begin, end) ==
    copy(copy(copy(make(Len(source) - (end - begin) + Len(value)),
                   0, Slice(source, 0, begin)),
              begin, value),
         begin + Len(value), Slice(source, end, Len(source)))

\* mutant: a not-found Replace hands the source back
replaceRegion_ReturnsSource(source, value, r) ==
    IF ~r.found THEN [res |-> source, found |-> FALSE, err |-> NoErr]
    ELSE [res |-> replaceBytes(source, value, r.begin, r.end), found |-> TRUE, err |-> NoErr]

replaceRegion(source, value, r) ==
    IF ~r.found THEN [res |-> Nil, found |-> FALSE, err |-> NoErr]
    ELSE [res |-> replaceBytes(source, value, r.begin, r.end), found |-> TRUE, err |-> NoErr]

Replace(source, name, value) == replaceRegion(source, value, findRegion(source, name))

ErrMissingEndregion == "missing #endregion"

(***************************************************************************)
(* The region operations as a state machine                                *)
(***************************************************************************)
BeginX == <<"/", "#region", " ", "x", "\n">>
BeginY == <<"/", "#region", " ", "y", "\n">>
EndX == <<"/", "#endregion", " ", "x", "\n">>
EndY == <<"/", "#endregion", " ", "y", "\n">>
EndAnon == <<"/", "#endregion", "\n">>
Body == <<"a", "\n">>

RegionLines == {BeginX, BeginY, EndX, EndY, EndAnon, Body}

RegionDocs ==
    {Flatten(ps) : ps \in UNION {[1..n -> RegionLines] : n \in 0..MaxRegionLines}}

Names == {<<"x">>}

Values == {<<>>, Body, <<"a">>, <<"/">>, EndX, EndAnon, BeginX}

\* the exec variables while the region operations or Walk run
EIdle ==
    /\ esrc = <<>>
    /\ efilter = {}
    /\ eupdate = FALSE
    /\ eblocks = <<>>
    /\ epos = 1
    /\ eindex = 0
    /\ entries = <<>>
    /\ efiles = <<>>
    /\ epc = "start"
    /\ eexit = -1
    /\ eupdates = <<>>
    /\ echanges = <<>>
    /\ eerr = NoErr
    /\ ewritten = Nil

\* the Walk variables while the region operations run
WIdle ==
    /\ doc = <<>>
    /\ nodes = <<>>
    /\ pos = 1
    /\ changes = <<>>
    /\ calls = <<>>
    /\ wpc = "start"
    /\ modified = FALSE
    /\ rewritten = Nil
    /\ werr = NoErr

RInit ==
    /\ rsource \in RegionDocs
    /\ rname = <<>>
    /\ rvalue = <<>>
    /\ rop = "none"
    /\ rpc = "start"
    /\ rres = Nil
    /\ rfound = FALSE
    /\ rerr = NoErr
    /\ ridx = 0
    /\ rback = [res |-> Nil, found |-> FALSE, err |-> NoErr]
    /\ WIdle
    /\ EIdle

CallRead ==
    /\ rpc = "start"
    /\ \E name \in Names :
          \E r \in {Read(rsource, name)} :
              /\ rname' = name
              /\ rres' = r.res
              /\ rfound' = r.found
              /\ rerr' = r.err
    /\ rop' = "Read"
    /\ rpc' = "done"
    /\ UNCHANGED <<rsource, rvalue, ridx, rback>>
    /\ UNCHANGED wvars
    /\ UNCHANGED evars

CallReplace ==
    /\ rpc = "start"
    /\ \E name \in Names, value \in Values :
          \E r \in {Replace(rsource, name, value)} :
              /\ rname' = name
              /\ rvalue' = value
              /\ rres' = r.res
              /\ rfound' = r.found
              /\ rerr' = r.err
              /\ rpc' = IF r.found THEN "replaced" ELSE "done"
    /\ rop' = "Replace"
    /\ UNCHANGED <<rsource, ridx, rback>>
    /\ UNCHANGED wvars
    /\ UNCHANGED evars

\* the round trip: Read of Replace's result, for the same name
ReadBack ==
    /\ rpc = "replaced"
    /\ rback' = Read(rres, rname)
    /\ rpc' = "done"
    /\ UNCHANGED <<rsource, rname, rvalue, rop, rres, rfound, rerr, ridx>>
    /\ UNCHANGED wvars
    /\ UNCHANGED evars

\* Outline, up to its loop: res := make([]byte, 0); found := false; idx := 0
CallOutline ==
    /\ rpc = "start"
    /\ rop' = "Outline"
    /\ rpc' = "outline"
    /\ rres' = <<>>
    /\ rfound' = FALSE
    /\ ridx' = 0
    /\ UNCHANGED <<rsource, rname, rvalue, rerr, rback>>
    /\ UNCHANGED wvars
    /\ UNCHANGED evars

\* Outline's idxStart, nil also when the loop condition idx < len(source) fails
outlineStart(source, idx) ==
    IF idx < Len(source)
    THEN FindIndex(reStart, Slice(source, idx, Len(source)))
    ELSE NilIdx

\* idx rebased by base: idx[0] += base; idx[1] += base
Rebase(idx, base) == <<idx[1] + base, idx[2] + base>>

\* mutant: a #region marker without an end marker ends the loop like a break
OutlineStep_BreakOnMissing ==
    /\ rpc = "outline"
    /\ \E idxStart0 \in {outlineStart(rsource, ridx)} :
          \/ /\ idxStart0 = NilIdx
             /\ rres' = rres \o Slice(rsource, ridx, Len(rsource))
             /\ rpc' = "done"
             /\ UNCHANGED <<rfound, rerr, ridx>>
          \/ /\ idxStart0 # NilIdx
             /\ \E idxStart \in {Rebase(idxStart0, ridx)} :
                \E idxEnd0 \in {FindIndex(reEnd, Slice(rsource, idxStart[2], Len(rsource)))} :
                   \/ /\ idxEnd0 = NilIdx
                      /\ rres' = rres \o Slice(rsource, ridx, Len(rsource))
                      /\ rpc' = "done"
                      /\ UNCHANGED <<rfound, rerr, ridx>>
                   \/ /\ idxEnd0 # NilIdx
                      /\ \E idxEnd \in {Rebase(idxEnd0, idxStart[2])} :
                            /\ rfound' = TRUE
                            /\ rres' = rres \o Slice(rsource, ridx, idxStart[2])
                                            \o Slice(rsource, idxEnd[1], idxEnd[2])
                            /\ ridx' = idxEnd[2]
                      /\ UNCHANGED <<rerr, rpc>>
    /\ UNCHANGED <<rsource, rname, rvalue, rop, rback>>
    /\ UNCHANGED wvars
    /\ UNCHANGED evars

\* one test of Outline's loop condition and, when it holds, one iteration
OutlineStep ==
    /\ rpc = "outline"
    /\ \E idxStart0 \in {outlineStart(rsource, ridx)} :
          \/ /\ idxStart0 = NilIdx
             /\ rres' = rres \o Slice(rsource, ridx, Len(rsource))
             /\ rpc' = "done"
             /\ UNCHANGED <<rfound, rerr, ridx>>
          \/ /\ idxStart0 # NilIdx
             /\ \E idxStart \in {Rebase(idxStart0, ridx)} :
                \E idxEnd0 \in {FindIndex(reEnd, Slice(rsource, idxStart[2], Len(rsource)))} :
                   \/ /\ idxEnd0 = NilIdx
                      /\ rres' = Nil
                      /\ rfound' = FALSE
                      /\ rerr' = ErrMissingEndregion
                      /\ rpc' = "done"
                      /\ UNCHANGED ridx
                   \/ /\ idxEnd0 # NilIdx
                      /\ \E idxEnd \in {Rebase(idxEnd0, idxStart[2])} :
                            /\ rfound' = TRUE
                            /\ rres' = rres \o Slice(rsource, ridx, idxStart[2])
                                            \o Slice(rsource, idxEnd[1], idxEnd[2])
                            /\ ridx' = idxEnd[2]
                      /\ UNCHANGED <<rerr, rpc>>
    /\ UNCHANGED <<rsource, rname, rvalue, rop, rback>>
    /\ UNCHANGED wvars
    /\ UNCHANGED evars

RNext == CallRead \/ CallReplace \/ ReadBack \/ CallOutline \/ OutlineStep

SpecRegion == RInit /\ [][RNext]_vars

(***************************************************************************)
(* internal/mdcode: the parsed document                                    *)
(*                                                                         *)
(* goldmark's block parser, for top-level lines: a line that starts with   *)
(* the fence opens a fenced code block (its info the rest of the line,     *)
(* trimmed, nil when empty) which runs to a line holding only the fence or *)
(* to the end of the document; a line that starts with the script tag      *)
(* opens an HTML block which runs to the line holding the closing tag (its *)
(* ClosureLine, not one of its Lines) or to the end of the document; other *)
(* lines make paragraphs.  A segment is [Start, Stop) with the line's      *)
(* "\n" inside it.  "<s>" stands for <script type="text/markdown">, "</s>" *)
(* for </script>, "q" for a double quote, Fence for three backticks.       *)
(***************************************************************************)
Fence == "~~~"
NoSeg == [Start |-> -1, Stop |-> -1]
Seg(a, b) == [Start |-> a, Stop |-> b]
Value(seg, source) == Slice(source, seg.Start, seg.Stop)

TrimLeftSpaceLength(s) == Skip(s, 1, space) - 1

RECURSIVE TrimRightSpaceLength(_)
TrimRightSpaceLength(s) ==
    IF s = <<>> \/ s[Len(s)] \notin space THEN 0
    ELSE 1 + TrimRightSpaceLength(SubSeq(s, 1, Len(s) - 1))

IsBlank(s) == TrimLeftSpaceLength(s) = Len(s)

\* the info of the opening fence line [p, e): nil unless something but space follows the fence
fenceInfo(line, p, e) ==
    LET i == 1
        rest == SubSeq(line, i + 1, Len(line))
        left == TrimLeftSpaceLength(rest)
        right == TrimRightSpaceLength(rest)
    IN  IF i < Len(line) - 1 /\ left < Len(rest) - right
        THEN Seg(p + i + left, e - right)
        ELSE NoSeg

Node(kind, info, lines, fence) == [kind |-> kind, info |-> info, lines |-> lines, fence |-> fence]

\* fence is the opening fence line; it is not a field of goldmark's node and no
\* operator of the program reads it
RECURSIVE parseFrom(_, _, _, _)
parseFrom(source, p, cur, out) ==
    LET closed == IF cur.kind = "none" THEN out ELSE Append(out, cur)
        none == Node("none", NoSeg, <<>>, NoSeg)
    IN  IF p >= Len(source) THEN closed
        ELSE LET e == IF LineEnd(source, p) = 0 THEN Len(source) ELSE LineEnd(source, p)
                 line == Slice(source, p, e)
                 more == Node(cur.kind, cur.info, Append(cur.lines, Seg(p, e)), cur.fence)
             IN  CASE cur.kind = "fcb" ->
                        IF line[1] = Fence /\ IsBlank(SubSeq(line, 2, Len(line)))
                        THEN parseFrom(source, e, none, closed)
                        ELSE parseFrom(source, e, more, out)
                   [] cur.kind = "html" ->
                        IF \E i \in 1..Len(line) : line[i] = "</s>"
                        THEN parseFrom(source, e, none, closed)
                        ELSE parseFrom(source, e, more, out)
                   [] OTHER ->
                        IF line[1] = Fence
                        THEN parseFrom(source, e,
                                 Node("fcb", fenceInfo(line, p, e), <<>>, Seg(p, e)), closed)
                        ELSE IF line[1] = "<s>"
                        THEN parseFrom(source, e,
                                 Node("html", NoSeg, <<Seg(p, e)>>, NoSeg), closed)
                        ELSE IF cur.kind = "para"
                        THEN parseFrom(source, e, more, out)
                        ELSE parseFrom(source, e,
                                 Node("para", NoSeg, <<Seg(p, e)>>, NoSeg), closed)

\* parser.Parse(reader).OwnerDocument(): the children of the document, in order
Parse(source) == parseFrom(source, 0, Node("none", NoSeg, <<>>, NoSeg), <<>>)

(***************************************************************************)
(* internal/mdcode: Walk's helpers                                         *)
(***************************************************************************)
\* reCommentedCodeBlock: ^\s*(<!--)?\s*<script type="text/markdown">\s*$
reCommentedCodeBlock(line) ==
    LET l == TrimLeftSpaceLength(line)
    IN  l < Len(line) /\ line[l + 1] = "<s>" /\ IsBlank(SubSeq(line, l + 2, Len(line)))

\* reFences.FindIndex: ^\s* and the fence, as <<0, end>>, or NilIdx
reFences(line) ==
    LET l == TrimLeftSpaceLength(line)
    IN  IF l < Len(line) /\ line[l + 1] = Fence THEN <<0, l + 1>> ELSE NilIdx

minLines == 2

\* the node the callback goes on with, when it leaves node
transformCommentedCodeBlock(node, source) ==
    IF node.kind # "html" \/ Len(node.lines) < minLines THEN node
    ELSE IF ~reCommentedCodeBlock(Value(node.lines[1], source)) THEN node
    ELSE LET seg == node.lines[2]
             loc == reFences(Value(seg, source))
         IN  IF loc = NilIdx THEN node
             ELSE IF reFences(Value(node.lines[Len(node.lines)], source)) = NilIdx THEN node
             ELSE Node("fcb", Seg(seg.Start + loc[2], seg.Stop - 1),
                       SubSeq(node.lines, 3, Len(node.lines) - 1), seg)

asFencedCodeBlock(node) == node.kind = "fcb"

lineAt(source, offset) ==
    1 + Cardinality({i \in 1..Len(source) : i <= offset /\ source[i] = "\n"})

extractLines(fcb, source) ==
    LET n == Len(fcb.lines)
        startLine == IF fcb.info # NoSeg THEN lineAt(source, fcb.info.Start)
                     ELSE IF n > 0 THEN lineAt(source, fcb.lines[1].Start) - 1
                     ELSE 0
        endLine == IF n > 0 THEN lineAt(source, fcb.lines[n].Stop)
                   ELSE IF startLine > 0 THEN startLine + 1
                   ELSE 0
    IN  <<startLine, endLine>>

extractCode(fcb, source) ==
    Flatten([i \in 1..Len(fcb.lines) |-> Value(fcb.lines[i], source)])

ErrMeta == "EOF found when expecting closing quote"

\* parseMeta for the alphabet in use, which has no "{" and no "=": no JSON, no
\* brackets, an empty dictionary unless shlex.Split fails on an open quote
parseMeta(input) ==
    IF Len(input) = 0 THEN NoErr
    ELSE IF Cardinality({i \in 1..Len(input) : input[i] = "q"}) % 2 = 1 THEN ErrMeta
    ELSE NoErr

\* reInfo \s*(\w+)\s*(.*)\s*, leftmost: the first run of word characters is the
\* language, what follows it and the space after it is the metadata
parseInfo(text) ==
    LET ws == {i \in 1..Len(text) : text[i] \in word}
    IN  IF ws = {} THEN [lang |-> <<>>, err |-> NoErr]
        ELSE LET i == Min(ws)
                 j == Skip(text, i, word)
                 k == Skip(text, j, space)
             IN  [lang |-> SubSeq(text, i, j - 1),
                  err |-> parseMeta(SubSeq(text, k, Len(text)))]

extractInfo(fcb, source) ==
    IF fcb.info = NoSeg THEN [lang |-> <<>>, err |-> NoErr]
    ELSE parseInfo(Value(fcb.info, source))

\* Block without its Meta
extractBlock(fcb, source) ==
    LET i == extractInfo(fcb, source)
        l == extractLines(fcb, source)
    IN  [err |-> i.err,
         block |-> [Lang |-> i.lang, Code |-> extractCode(fcb, source),
                    StartLine |-> l[1], EndLine |-> l[2]]]

\* change.bounds; panic is the nil dereference of fcb.Info
bounds(c) ==
    LET n == Len(c.fcb.lines)
    IN  IF n = 0
        THEN IF c.fcb.info = NoSeg THEN [panic |-> TRUE, start |-> 0, stop |-> 0]
             ELSE [panic |-> FALSE, start |-> c.fcb.info.Stop + 1, stop |-> c.fcb.info.Stop + 1]
        ELSE [panic |-> FALSE, start |-> c.fcb.lines[1].Start, stop |-> c.fcb.lines[n].Stop]

sizeIncrement(c) ==
    LET b == bounds(c)
    IN  [panic |-> b.panic, n |-> Len(c.block.Code) - (b.stop - b.start)]

\* s[a:b] panics unless 0 <= a <= b <= len(s).  (With cap(source) > len(source) a
\* b beyond len(source) passes here and the panic comes at source[srcIdx:].)
SliceOK(s, a, b) == 0 <= a /\ a <= b /\ b <= Len(s)

\* the second loop of applyChanges, from change i on
RECURSIVE applyLoop(_, _, _, _, _, _)
applyLoop(chs, i, source, result, srcIdx, resIdx) ==
    IF i > Len(chs)
    THEN IF SliceOK(result, resIdx, Len(result)) /\ SliceOK(source, srcIdx, Len(source))
         THEN [panic |-> FALSE,
               result |-> copy(result, resIdx, Slice(source, srcIdx, Len(source)))]
         ELSE [panic |-> TRUE, result |-> Nil]
    ELSE LET b == bounds(chs[i])
             resIdx1 == resIdx + (b.start - srcIdx)
         IN  IF \/ b.panic
                \/ ~SliceOK(result, resIdx, Len(result))
                \/ ~SliceOK(source, srcIdx, b.start)
                \/ ~SliceOK(result, resIdx1, Len(result))
             THEN [panic |-> TRUE, result |-> Nil]
             ELSE applyLoop(chs, i + 1, source,
                      copy(copy(result, resIdx, Slice(source, srcIdx, b.start)),
                           resIdx1, chs[i].block.Code),
                      b.stop, resIdx1 + Len(chs[i].block.Code))

RECURSIVE sumIncrements(_, _)
sumIncrements(chs, i) ==
    IF i > Len(chs) THEN 0 ELSE sizeIncrement(chs[i]).n + sumIncrements(chs, i + 1)

applyChanges(chs, source) ==
    LET resSize == Len(source) + sumIncrements(chs, 1)
    IN  IF (\E i \in 1..Len(chs) : sizeIncrement(chs[i]).panic) \/ resSize < 0
        THEN [panic |-> TRUE, result |-> Nil]
        ELSE applyLoop(chs, 1, source, make(resSize), 0, 0)

\* mutant: every block is recorded as changed
changed_Always(code, newCode) == TRUE

\* !bytes.Equal(code, block.Code)
changed(code, newCode) == code # newCode

\* mutant: the changes collected before the error are applied all the same
WalkResult_KeepsChanges(err, chs, source) ==
    IF Len(chs) = 0
    THEN [panic |-> FALSE, modified |-> FALSE, rewritten |-> Nil, err |-> err]
    ELSE LET a == applyChanges(chs, source)
         IN  [panic |-> a.panic, modified |-> TRUE, rewritten |-> a.result, err |-> err]

\* Walk after ast.Walk has returned err
WalkResult(err, chs, source) ==
    IF err # NoErr THEN [panic |-> FALSE, modified |-> FALSE, rewritten |-> Nil, err |-> err]
    ELSE IF Len(chs) = 0
    THEN [panic |-> FALSE, modified |-> FALSE, rewritten |-> Nil, err |-> NoErr]
    ELSE LET a == applyChanges(chs, source)
         IN  [panic |-> a.panic, modified |-> TRUE, rewritten |-> a.result, err |-> NoErr]

(***************************************************************************)
(* Walk as a state machine                                                 *)
(***************************************************************************)
Text == <<"t", "\n">>
BareEmpty == <<Fence, "\n", Fence, "\n">>
BareBody == <<Fence, "\n", "c", "\n", Fence, "\n">>
InfoEmpty == <<Fence, "g", "\n", Fence, "\n">>
InfoBody == <<Fence, "g", "\n", "c", "\n", Fence, "\n">>
InfoBlankEmpty == <<Fence, "g", " ", "\n", Fence, "\n">>
BadMetaBody == <<Fence, "g", " ", "q", "\n", "c", "\n", Fence, "\n">>
Commented == <<"<s>", "\n", Fence, "g", "\n", "c", "\n", Fence, "\n", "</s>", "\n">>
OpenInfo == <<Fence, "g", "g">>

Pieces == {Text, BareEmpty, BareBody, InfoEmpty, InfoBody, InfoBlankEmpty, BadMetaBody,
           Commented, OpenInfo}

Docs == {Flatten(ps) : ps \in UNION {[1..n -> Pieces] : n \in 0..MaxPieces}}

ErrWalker == "walker error"

\* what a walker may do with a block: leave its Code, replace it, or fail
NewCodes(code) == {code, code \o <<"n", "\n">>, <<"n", "\n">>, <<>>}

\* the region variables while Walk runs
RIdle ==
    /\ rsource = <<>>
    /\ rname = <<>>
    /\ rvalue = <<>>
    /\ rop = "none"
    /\ rpc = "start"
    /\ rres = Nil
    /\ rfound = FALSE
    /\ rerr = NoErr
    /\ ridx = 0
    /\ rback = [res |-> Nil, found |-> FALSE, err |-> NoErr]

Init ==
    /\ doc \in Docs
    /\ nodes = <<>>
    /\ pos = 1
    /\ changes = <<>>
    /\ calls = <<>>
    /\ wpc = "start"
    /\ modified = FALSE
    /\ rewritten = Nil
    /\ werr = NoErr
    /\ RIdle
    /\ EIdle

\* Walk, up to ast.Walk: the document is parsed once
WalkParse ==
    /\ wpc = "start"
    /\ nodes' = Parse(doc)
    /\ wpc' = "walking"
    /\ UNCHANGED <<doc, pos, changes, calls, modified, rewritten, werr>>
    /\ UNCHANGED rvars
    /\ UNCHANGED evars

\* the callback of ast.Walk when it leaves nodes[pos] (entering a node it
\* returns WalkContinue at once); an error ends ast.Walk
WalkNode ==
    /\ wpc = "walking"
    /\ pos <= Len(nodes)
    /\ \E fcb \in {transformCommentedCodeBlock(nodes[pos], doc)} :
       \E b \in {extractBlock(fcb, doc)} :
           \/ /\ ~asFencedCodeBlock(fcb)
              /\ pos' = pos + 1
              /\ UNCHANGED <<changes, calls, wpc, werr>>
           \/ /\ asFencedCodeBlock(fcb)
              /\ b.err # NoErr
              /\ werr' = b.err
              /\ wpc' = "return"
              /\ UNCHANGED <<pos, changes, calls>>
           \/ /\ asFencedCodeBlock(fcb)
              /\ b.err = NoErr
              /\ calls' = Append(calls, [fcb |-> fcb, block |-> b.block, new |-> b.block.Code,
                                        failed |-> TRUE])
              /\ werr' = ErrWalker
              /\ wpc' = "return"
              /\ UNCHANGED <<pos, changes>>
           \/ /\ asFencedCodeBlock(fcb)
              /\ b.err = NoErr
              /\ \E newCode \in NewCodes(b.block.Code) :
                    /\ calls' = Append(calls, [fcb |-> fcb, block |-> b.block,
                                              new |-> newCode, failed |-> FALSE])
                    /\ changes' = IF changed(b.block.Code, newCode)
                                  THEN Append(changes,
                                           [fcb |-> fcb,
                                            block |-> [b.block EXCEPT !.Code = newCode]])
                                  ELSE changes
              /\ pos' = pos + 1
              /\ UNCHANGED <<wpc, werr>>
    /\ UNCHANGED <<doc, nodes, modified, rewritten>>
    /\ UNCHANGED rvars
    /\ UNCHANGED evars

\* Walk after ast.Walk: the error, no change, or the document with the changes applied
WalkReturn ==
    /\ \/ wpc = "return"
       \/ wpc = "walking" /\ pos > Len(nodes)
    /\ \E r \in {WalkResult(werr, changes, doc)} :
           /\ wpc' = IF r.panic THEN "panic" ELSE "done"
           /\ modified' = IF r.panic THEN modified ELSE r.modified
           /\ rewritten' = IF r.panic THEN rewritten ELSE r.rewritten
           /\ werr' = r.err
    /\ UNCHANGED <<doc, nodes, pos, changes, calls>>
    /\ UNCHANGED rvars
    /\ UNCHANGED evars

Next == WalkParse \/ WalkNode \/ WalkReturn

Spec == Init /\ [][Next]_vars

(***************************************************************************)
(* internal/cmd: exec --batch                                              *)
(*                                                                         *)
(* execBatch walks the document twice.  The first walk writes every        *)
(* selected block to a temporary file and collects the blockInfo of the    *)
(* files it could write; the batch command then runs once over all of      *)
(* them; with --update and exit status 0 the second walk reads the files   *)
(* back into the blocks.  A temporary path is named by the index of its    *)
(* block among the selected ones, so distinct indexes give distinct paths. *)
(* Writing a file may fail, and the command may rewrite or remove any of   *)
(* the files.                                                              *)
(***************************************************************************)
MaxBlocks == 3

ErrRead == "open: no such file or directory"
ErrRun == "runCommand error"
ErrExit == "command exited with 1"

\* the fenced code blocks mdcode.Walk reaches, in order, each with the Block it
\* builds for the walker and the error of its info string
fencedBlocks(source) ==
    LET ns == Parse(source)
        fs == SelectSeq([i \in 1..Len(ns) |-> transformCommentedCodeBlock(ns[i], source)],
                        asFencedCodeBlock)
    IN  [i \in 1..Len(fs) |-> [fcb |-> fs[i],
                               err |-> extractBlock(fs[i], source).err,
                               block |-> extractBlock(fs[i], source).block]]

\* opts.filter as cmd's walk calls it, for blocks without metadata
filter(langs, lang) == lang \in langs

\* block_<index><extension of the language>
tempFilename(block, index) == <<"block_", index, block.Lang>>

\* the blockInfo writeBlockToTemp returns when the file is written
blockInfo(block, index) ==
    [index |-> index, lang |-> block.Lang, tempPath |-> tempFilename(block, index),
     startLine |-> block.StartLine, endLine |-> block.EndLine]

\* what the batch command may write into a file
Rewritten == <<"n", "\n">>

ExecPieces == {BareBody, InfoBody, BadMetaBody}

ExecDocs == {Flatten(ps) : ps \in UNION {[1..n -> ExecPieces] : n \in 0..MaxBlocks}}

Filters == {{<<>>, <<"g">>}, {<<"g">>}}

ExecInit ==
    /\ esrc \in ExecDocs
    /\ efilter \in Filters
    /\ eupdate \in BOOLEAN
    /\ eblocks = <<>>
    /\ epos = 1
    /\ eindex = 0
    /\ entries = <<>>
    /\ efiles = <<>>
    /\ epc = "start"
    /\ eexit = -1
    /\ eupdates = <<>>
    /\ echanges = <<>>
    /\ eerr = NoErr
    /\ ewritten = Nil
    /\ RIdle
    /\ WIdle

\* execBatch up to the first callback: the first walk parses src
ExecStart ==
    /\ epc = "start"
    /\ eblocks' = fencedBlocks(esrc)
    /\ epc' = "pass1"
    /\ UNCHANGED <<esrc, efilter, eupdate, epos, eindex, entries, efiles, eexit, eupdates,
                   echanges, eerr, ewritten>>
    /\ UNCHANGED rvars
    /\ UNCHANGED wvars

\* the first walk at one fenced code block: Walk stops on a bad info string, cmd's
\* walk skips a block the filter rejects, the walker writes the block to its file
FirstPass ==
    /\ epc = "pass1"
    /\ epos <= Len(eblocks)
    /\ \E x \in {eblocks[epos]} :
          \/ /\ x.err # NoErr
             /\ eerr' = x.err
             /\ epc' = "done"
             /\ UNCHANGED <<epos, eindex, entries, efiles>>
          \/ /\ x.err = NoErr
             /\ ~filter(efilter, x.block.Lang)
             /\ epos' = epos + 1
             /\ UNCHANGED <<eindex, entries, efiles, epc, eerr>>
          \/ /\ x.err = NoErr
             /\ filter(efilter, x.block.Lang)
             /\ entries' = Append(entries, blockInfo(x.block, eindex))
             /\ efiles' = (tempFilename(x.block, eindex) :> x.block.Code) @@ efiles
             /\ eindex' = eindex + 1
             /\ epos' = epos + 1
             /\ UNCHANGED <<epc, eerr>>
          \/ /\ x.err = NoErr
             /\ filter(efilter, x.block.Lang)
             /\ eindex' = eindex + 1
             /\ epos' = epos + 1
             /\ UNCHANGED <<entries, efiles, epc, eerr>>
    /\ UNCHANGED <<esrc, efilter, eupdate, eblocks, eexit, eupdates, echanges, ewritten>>
    /\ UNCHANGED rvars
    /\ UNCHANGED wvars

\* after the first walk: nothing to run without entries
FirstPassEnd ==
    /\ epc = "pass1"
    /\ epos > Len(eblocks)
    /\ epc' = IF Len(entries) = 0 THEN "done" ELSE "run"
    /\ UNCHANGED <<esrc, efilter, eupdate, eblocks, epos, eindex, entries, efiles, eexit,
                   eupdates, echanges, eerr, ewritten>>
    /\ UNCHANGED rvars
    /\ UNCHANGED wvars

\* the files after the command has removed those of gone and rewritten those of edited
filesAfter(files, gone, edited) ==
    [p \in (DOMAIN files) \ gone |-> IF p \in edited THEN Rewritten ELSE files[p]]

\* runCommand and what execBatch does with its outcome, up to the second walk
RunCommand ==
    /\ epc = "run"
    /\ \E gone \in SUBSET (DOMAIN efiles) :
       \E edited \in SUBSET ((DOMAIN efiles) \ gone) :
          efiles' = filesAfter(efiles, gone, edited)
    /\ \/ /\ eerr' = ErrRun
          /\ epc' = "done"
          /\ UNCHANGED <<eexit, eindex, epos>>
       \/ /\ eupdate
          /\ eexit' = 1
          /\ epc' = "done"
          /\ UNCHANGED <<eerr, eindex, epos>>
       \/ /\ eupdate
          /\ eexit' = 0
          /\ eindex' = 0
          /\ epos' = 1
          /\ epc' = "pass2"
          /\ UNCHANGED eerr
       \/ /\ ~eupdate
          /\ eexit' = 1
          /\ eerr' = ErrExit
          /\ epc' = "done"
          /\ UNCHANGED <<eindex, epos>>
       \/ /\ ~eupdate
          /\ eexit' = 0
          /\ epc' = "done"
          /\ UNCHANGED <<eerr, eindex, epos>>
    /\ UNCHANGED <<esrc, efilter, eupdate, eblocks, entries, eupdates, echanges, ewritten>>
    /\ UNCHANGED rvars
    /\ UNCHANGED wvars

\* the second walk at one fenced code block
SecondPass ==
    /\ epc = "pass2"
    /\ epos <= Len(eblocks)
    /\ \E x \in {eblocks[epos]} :
          \/ /\ ~filter(efilter, x.block.Lang)
             /\ epos' = epos + 1
             /\ UNCHANGED <<eindex, eupdates, echanges, epc, eerr>>
          \/ /\ filter(efilter, x.block.Lang)
             /\ eindex >= Len(entries)
             /\ epos' = epos + 1
             /\ UNCHANGED <<eindex, eupdates, echanges, epc, eerr>>
          \/ /\ filter(efilter, x.block.Lang)
             /\ eindex < Len(entries)
             /\ entries[eindex + 1].tempPath \notin DOMAIN efiles
             /\ eindex' = eindex + 1
             /\ eerr' = ErrRead
             /\ epc' = "return2"
             /\ UNCHANGED <<epos, eupdates, echanges>>
          \/ /\ filter(efilter, x.block.Lang)
             /\ eindex < Len(entries)
             /\ entries[eindex + 1].tempPath \in DOMAIN efiles
             /\ \E entry \in {entries[eindex + 1]} :
                \E newCode \in {efiles[entry.tempPath]} :
                   /\ eupdates' = Append(eupdates, [block |-> x.block, entry |-> entry,
                                                    newCode |-> newCode])
                   /\ echanges' = IF changed(x.block.Code, newCode)
                                  THEN Append(echanges,
                                           [fcb |-> x.fcb,
                                            block |-> [x.block EXCEPT !.Code = newCode]])
                                  ELSE echanges
             /\ eindex' = eindex + 1
             /\ epos' = epos + 1
             /\ UNCHANGED <<epc, eerr>>
    /\ UNCHANGED <<esrc, efilter, eupdate, eblocks, entries, efiles, eexit, ewritten>>
    /\ UNCHANGED rvars
    /\ UNCHANGED wvars

\* after the second walk: its error, or the rewritten document written to the file
SecondPassEnd ==
    /\ \/ epc = "return2"
       \/ epc = "pass2" /\ epos > Len(eblocks)
    /\ \E r \in {WalkResult(eerr, echanges, esrc)} :
          /\ epc' = IF r.panic THEN "panic" ELSE "done"
          /\ ewritten' = IF ~r.panic /\ r.err = NoErr /\ r.modified THEN r.rewritten
                         ELSE ewritten
    /\ UNCHANGED <<esrc, efilter, eupdate, eblocks, epos, eindex, entries, efiles, eexit,
                   eupdates, echanges, eerr>>
    /\ UNCHANGED rvars
    /\ UNCHANGED wvars

ExecNext == ExecStart \/ FirstPass \/ FirstPassEnd \/ RunCommand \/ SecondPass \/ SecondPassEnd

SpecExec == ExecInit /\ [][ExecNext]_vars

(***************************************************************************)
(* The marker lines of a document, read line by line                       *)
(***************************************************************************)
LineOf(text, p) == Slice(text, p, LineEnd(text, p))

IsBegin(text, p, name) == MatchLine(marker(regionFormat, name), LineOf(text, p))
IsNamedEnd(text, p, name) == MatchLine(marker(namedendFormat, name), LineOf(text, p))
IsAnonEnd(text, p) == MatchLine([lit |-> "#endregion", mode |-> "none", name |-> <<>>], LineOf(text, p))
IsAnyBegin(text, p) == MatchLine([lit |-> "#region", mode |-> "word", name |-> <<>>], LineOf(text, p))
IsAnyEnd(text, p) ==
    \/ IsAnonEnd(text, p)
    \/ MatchLine([lit |-> "#endregion", mode |-> "word", name |-> <<>>], LineOf(text, p))

\* a begin marker of name with a named or an anonymous end marker after it
HasRegion(text, name) ==
    \E p \in LineStarts(text) :
        /\ IsBegin(text, p, name)
        /\ \E q \in LineStarts(text) :
              q > p /\ (IsNamedEnd(text, q, name) \/ IsAnonEnd(text, q))

HasBegin(text, name) == \E p \in LineStarts(text) : IsBegin(text, p, name)

FirstBegin(text, name) == Min({p \in LineStarts(text) : IsBegin(text, p, name)})

NamedEndsAfter(text, name) ==
    {q \in LineStarts(text) : q > FirstBegin(text, name) /\ IsNamedEnd(text, q, name)}

AnonEndsAfter(text, name) ==
    {q \in LineStarts(text) : q > FirstBegin(text, name) /\ IsAnonEnd(text, q)}

\* some #region line has no #endregion line, named or not, after it
Unterminated(text) ==
    \E p \in LineStarts(text) :
        IsAnyBegin(text, p) /\ ~\E q \in LineStarts(text) : q > p /\ IsAnyEnd(text, q)

ReplaceDone == rop = "Replace" /\ rpc = "done"
ReadDone == rop = "Read" /\ rpc = "done"
OutlineDone == rop = "Outline" /\ rpc = "done"

(***************************************************************************)
(* The blocks of a walk                                                    *)
(***************************************************************************)
WalkDone == wpc = "done"

\* the body of a block in the document: its body lines, or the empty span just
\* after its opening fence line
BodySpan(c) ==
    IF Len(c.fcb.lines) > 0
    THEN <<c.fcb.lines[1].Start, c.fcb.lines[Len(c.fcb.lines)].Stop>>
    ELSE <<c.fcb.fence.Stop, c.fcb.fence.Stop>>

IsEdit(c) == ~c.failed /\ c.new # c.block.Code
Edits == SelectSeq(calls, IsEdit)

\* the document with the body of every edited block replaced, last block first
RECURSIVE Splice(_, _)
Splice(text, edits) ==
    IF edits = <<>> THEN text
    ELSE LET e == edits[Len(edits)]
             sp == BodySpan(e)
         IN  Splice(Slice(text, 0, sp[1]) \o e.new \o Slice(text, sp[2], Len(text)),
                    SubSeq(edits, 1, Len(edits) - 1))

RECURSIVE SumGrowth(_)
SumGrowth(edits) ==
    IF edits = <<>> THEN 0
    ELSE Len(Head(edits).new) - (BodySpan(Head(edits))[2] - BodySpan(Head(edits))[1])
             + SumGrowth(Tail(edits))

\* every walker call so far returned nil and left the block's Code as extracted
AllKept == \A i \in 1..Len(calls) : ~calls[i].failed /\ calls[i].new = calls[i].block.Code

\* the fenced code blocks the callback meets, in order
FcbNodes ==
    SelectSeq([i \in 1..Len(nodes) |-> transformCommentedCodeBlock(nodes[i], doc)],
              asFencedCodeBlock)

(***************************************************************************)
(* C4                                                                      *)
(***************************************************************************)
\* C4: Walk returns a result or an error and never panics, whatever the shape of
\* the fenced blocks and whether or not the walker changes their Code.
C4_WalkNeverPanics == wpc # "panic"

(***************************************************************************)
(* C5                                                                      *)
(***************************************************************************)
\* C5: the document Walk returns is the original with the body of every edited
\* block replaced by its new Code and every other byte kept in place, and its
\* length is len(original) plus the sum of len(replacement) - len(body span).
C5_Reassembly ==
    (WalkDone /\ modified) =>
        /\ rewritten = Splice(doc, Edits)
        /\ Len(rewritten) = Len(doc) + SumGrowth(Edits)

(***************************************************************************)
(* C6                                                                      *)
(***************************************************************************)
\* C6: once the walker has failed on a block no later block is handed to it, and
\* Walk returns that error with modified=false and rewritten=nil, also when
\* earlier blocks had their Code changed.
C6_TransformFailure ==
    \A i \in 1..Len(calls) :
        calls[i].failed =>
            /\ i = Len(calls)
            /\ wpc \in {"return", "done"}
            /\ WalkDone => (werr = ErrWalker /\ modified = FALSE /\ rewritten = Nil)

\* the walker failed after an earlier block's Code was changed, and a later
\* fenced block was never handed to it
C6_Witness ==
    /\ WalkDone
    /\ calls # <<>> /\ calls[Len(calls)].failed
    /\ changes # <<>>
    /\ Len(FcbNodes) > Len(calls)

(***************************************************************************)
(* C8                                                                      *)
(***************************************************************************)
\* C8: every block handed to the walker has 1 <= StartLine <= EndLine, and a
\* block without body lines has EndLine = StartLine + 1, with or without an
\* info string.
C8_BlockLines ==
    \A i \in 1..Len(calls) :
        LET b == calls[i].block
        IN  /\ 1 <= b.StartLine
            /\ b.StartLine <= b.EndLine
            /\ Len(calls[i].fcb.lines) = 0 => b.EndLine = b.StartLine + 1

SomeBadInfo == \E i \in 1..Len(FcbNodes) : extractInfo(FcbNodes[i], doc).err # NoErr

C2_RoundTripAnyValue ==
    (ReplaceDone /\ HasRegion(rsource, rname)) =>
        (rfound /\ rerr = NoErr /\ rback.found /\ rback.err = NoErr /\ rback.res = rvalue)

\* the value is empty or ends in a newline, holds no "#endregion <name>" line and,
\* when the region of the document is closed by an anonymous end marker, no
\* anonymous "#endregion" line either
RoundTripValue(text, name, value) ==
    /\ value = <<>> \/ value[Len(value)] = "\n"
    /\ ~\E p \in LineStarts(value) : IsNamedEnd(value, p, name)
    /\ \/ NamedEndsAfter(text, name) # {}
       \/ ~\E p \in LineStarts(value) : IsAnonEnd(value, p)

\* C2 amended: when a region of the name exists and the value is a RoundTripValue,
\* Replace succeeds and Read of its result returns found=true and exactly the value.
C2_RoundTrip ==
    (ReplaceDone /\ HasRegion(rsource, rname) /\ RoundTripValue(rsource, rname, rvalue)) =>
        (rfound /\ rerr = NoErr /\ rback.found /\ rback.err = NoErr /\ rback.res = rvalue)

\* a round trip of a non-empty value that changes the document's length
C2_Witness ==
    /\ ReplaceDone /\ HasRegion(rsource, rname)
    /\ RoundTripValue(rsource, rname, rvalue)
    /\ rvalue # <<>>
    /\ Len(rres) # Len(rsource)
    /\ rback.found /\ rback.res = rvalue

(***************************************************************************)
(* C3                                                                      *)
(***************************************************************************)
RECURSIVE SplitLines(_)
SplitLines(text) ==
    IF text = <<>> THEN <<>>
    ELSE IF LineEnd(text, 0) = 0 THEN <<text>>
    ELSE <<Slice(text, 0, LineEnd(text, 0))>>
             \o SplitLines(Slice(text, LineEnd(text, 0), Len(text)))

IsBeginLine(l) == l # <<>> /\ l[Len(l)] = "\n" /\ IsAnyBegin(l, 0)
IsEndLine(l) == l # <<>> /\ l[Len(l)] = "\n" /\ IsAnyEnd(l, 0)

\* each #region line paired with the next #endregion line, named or not: both
\* marker lines kept, the lines between them dropped
RECURSIVE PairedOutline(_, _)
PairedOutline(ls, inside) ==
    IF ls = <<>> THEN <<>>
    ELSE IF inside
         THEN IF IsEndLine(Head(ls))
              THEN Head(ls) \o PairedOutline(Tail(ls), FALSE)
              ELSE PairedOutline(Tail(ls), TRUE)
         ELSE Head(ls) \o PairedOutline(Tail(ls), IsBeginLine(Head(ls)))

\* C3 as stated: Outline pairs each #region marker with the next #endregion
\* marker, named or not, drops exactly the bytes between the two marker lines,
\* keeps both, and reports found=true when there was a region.
C3_OutlinePairsAnyEnd ==
    (OutlineDone /\ ~Unterminated(rsource)) =>
        /\ rerr = NoErr
        /\ rres = PairedOutline(SplitLines(rsource), FALSE)
        /\ rfound = (\E p \in LineStarts(rsource) : IsAnyBegin(rsource, p))

(***************************************************************************)
(* C7                                                                      *)
(***************************************************************************)
\* C7: Read takes the first begin marker of the name; the span ends at the first
\* named end marker after it, even behind an earlier anonymous one, else at the
\* first anonymous end marker after it; the result is the bytes from the end of
\* the begin line to the start of the end line; with no begin marker or no end
\* marker after it Read returns not-found, no bytes and no error.
C7_ReadEndMarker ==
    ReadDone =>
        /\ rerr = NoErr
        /\ IF ~HasBegin(rsource, rname) THEN rfound = FALSE /\ rres = Nil
           ELSE LET b == LineEnd(rsource, FirstBegin(rsource, rname))
                    named == NamedEndsAfter(rsource, rname)
                    anon == AnonEndsAfter(rsource, rname)
                IN  IF named # {} THEN rfound /\ rres = Slice(rsource, b, Min(named))
                    ELSE IF anon # {} THEN rfound /\ rres = Slice(rsource, b, Min(anon))
                    ELSE rfound = FALSE /\ rres = Nil

\* Read chose a named end marker that lies behind an anonymous one
C7_Witness ==
    /\ ReadDone /\ rfound
    /\ NamedEndsAfter(rsource, rname) # {}
    /\ AnonEndsAfter(rsource, rname) # {}
    /\ Min(AnonEndsAfter(rsource, rname)) < Min(NamedEndsAfter(rsource, rname))
    /\ Len(rres) > Min(AnonEndsAfter(rsource, rname)) - LineEnd(rsource, FirstBegin(rsource, rname))

(***************************************************************************)
(* C9                                                                      *)
(***************************************************************************)
\* C9: when some #region marker has no #endregion marker anywhere after it,
\* Outline returns ErrMissingEndregion, no document and found=false, also when
\* earlier regions were already matched and stripped.
C9_OutlineMissingEnd ==
    (OutlineDone /\ Unterminated(rsource)) =>
        (rerr = ErrMissingEndregion /\ rres = Nil /\ rfound = FALSE)

\* Outline failed after it had matched and stripped an earlier region
C9_Witness ==
    OutlineDone /\ Unterminated(rsource) /\ rerr = ErrMissingEndregion /\ ridx > 0

(***************************************************************************)
(* C11                                                                     *)
(***************************************************************************)
\* C11: exec --batch --update, after the batch command has exited with status 0:
\* every selected block whose Code is assigned in the second walk receives the
\* content of the temporary file that was written from that same block, whichever
\* of the temporary files of the first walk could be written and whichever could
\* not.  The blockInfo of a file carries the lines of the block it was written
\* from, so the file belongs to the block when these lines are the block's.
C11_BatchPairing ==
    \A i \in 1..Len(eupdates) :
        /\ eupdates[i].entry.startLine = eupdates[i].block.StartLine
        /\ eupdates[i].entry.endLine = eupdates[i].block.EndLine

====
